---- MODULE Spec2Model ----
(***************************************************************************)
(* Model of the EPI governance core: the score engine (EPICalculator), the *)
(* trust ledger (TrustAccumulator), the policy pipeline (PolicyValidator)  *)
(* and the audit log (ThoughtLogger).                                      *)
(*                                                                         *)
(* Python floats are modelled as exact rationals <<n, d>> in lowest terms  *)
(* with d > 0; <<0, 0>> is NaN and <<1, 0>> is +infinity.                  *)
(***************************************************************************)
EXTENDS Integers, Sequences, FiniteSets, TLC

VARIABLES
    \* TrustAccumulator instance; returned lists what record_violation has
    \* returned since the last reset
    initial_trust, min_threshold, current_trust, violations,
    ledgerOp, ledgerRet, prev_trust, returned,
    \* threads inside record_violation on the one instance: where each is and
    \* its local variables
    pc, frame,
    \* EPICalculator instance and the last call made on it
    threshold, phi_weight, calcOp, calcArgs, calcRet,
    \* PolicyValidator: the last intent validated and its result
    polIntent, polRet,
    \* ThoughtLogger instance, its log directory and the wall clock
    session_id, files, clock, logOp, logArgs, logRet, issued, appendCount,
    \* CFOAIAgent instance and the last call made on it; its ThoughtLogger is
    \* the logger above
    epi_threshold, treasury_balance, initial_balance, payments_processed,
    payments_approved, total_disbursed, allocations_made, cfoOp, cfoRet

ledgerVars == <<initial_trust, min_threshold, current_trust, violations,
                ledgerOp, ledgerRet, prev_trust, returned>>
calcVars == <<threshold, phi_weight, calcOp, calcArgs, calcRet>>
polVars == <<polIntent, polRet>>
logVars == <<session_id, files, clock, logOp, logArgs, logRet, issued, appendCount>>
threadVars == <<pc, frame>>
cfoVars == <<epi_threshold, treasury_balance, initial_balance, payments_processed,
             payments_approved, total_disbursed, allocations_made, cfoOp, cfoRet>>
vars == <<ledgerVars, threadVars, calcVars, polVars, logVars, cfoVars>>

-----------------------------------------------------------------------------
(* Rational arithmetic standing for float arithmetic.  Common factors are    *)
(* cancelled before each multiplication, so that intermediate values stay    *)
(* small.                                                                    *)

NaN == <<0, 0>>
Inf == <<1, 0>>
Zero == <<0, 1>>
One == <<1, 1>>
Half == <<1, 2>>

Abs(n) == IF n < 0 THEN -n ELSE n

RECURSIVE GCD(_, _)
GCD(a, b) == IF b = 0 THEN a ELSE GCD(b, a % b)

IsNaN(a) == a = NaN
IsFinite(a) == a[2] # 0

RNorm(n, d) ==
    IF d = 0 THEN NaN
    ELSE LET s == IF d < 0 THEN -1 ELSE 1
             g == GCD(Abs(n), Abs(d))
         IN <<(s * n) \div g, (s * d) \div g>>

RMul(a, b) ==
    IF IsNaN(a) \/ IsNaN(b) THEN NaN
    ELSE IF a = Inf \/ b = Inf
         THEN (IF a = Zero \/ b = Zero THEN NaN ELSE Inf)
    ELSE LET g1 == GCD(Abs(a[1]), b[2])
             g2 == GCD(Abs(b[1]), a[2])
         IN RNorm((a[1] \div g1) * (b[1] \div g2), (a[2] \div g2) * (b[2] \div g1))

RAdd(a, b) ==
    IF IsNaN(a) \/ IsNaN(b) THEN NaN
    ELSE IF a = Inf \/ b = Inf THEN Inf
    ELSE LET g == GCD(a[2], b[2])
         IN RNorm(a[1] * (b[2] \div g) + b[1] * (a[2] \div g), (a[2] \div g) * b[2])

RNeg(a) == IF IsFinite(a) THEN <<-a[1], a[2]>> ELSE NaN

RSub(a, b) == IF b = Inf THEN NaN ELSE RAdd(a, RNeg(b))

\* a / b for a finite non-zero divisor b
RDiv(a, b) ==
    IF IsNaN(a) \/ IsNaN(b) THEN NaN
    ELSE IF a = Inf THEN Inf
    ELSE IF b[1] = 0 THEN RNorm(a[1] * b[2], 0)
    ELSE LET g1 == GCD(Abs(a[1]), Abs(b[1]))
             g2 == GCD(a[2], b[2])
         IN RNorm((a[1] \div g1) * (b[2] \div g2), (a[2] \div g2) * (b[1] \div g1))

RAbs(a) == IF IsFinite(a) THEN <<Abs(a[1]), a[2]>> ELSE a

\* comparisons: every comparison with NaN is false; the common factor of the
\* denominators is cancelled before the cross multiplication
RLt(a, b) ==
    IF IsNaN(a) \/ IsNaN(b) THEN FALSE
    ELSE IF b = Inf THEN a # Inf
    ELSE IF a = Inf THEN FALSE
    ELSE LET g == GCD(a[2], b[2])
         IN a[1] * (b[2] \div g) < b[1] * (a[2] \div g)

REq(a, b) == ~IsNaN(a) /\ ~IsNaN(b) /\ a = b
RLe(a, b) == RLt(a, b) \/ REq(a, b)
RGe(a, b) == RLe(b, a)
RGt(a, b) == RLt(b, a)

\* Python's max(a, b) and min(a, b): the first argument unless the second beats it
PyMax(a, b) == IF RGt(b, a) THEN b ELSE a
PyMin(a, b) == IF RLt(b, a) THEN b ELSE a

Last(s) == s[Len(s)]

\* an optional argument: << >> is None, <<v>> is the value v
None == << >>
Some(v) == <<v>>
IsNone(o) == o = << >>

RECURSIVE SeqsUpTo(_, _)
SeqsUpTo(S, n) ==
    IF n = 0 THEN {<< >>}
    ELSE LET shorter == SeqsUpTo(S, n - 1)
         IN shorter \cup {Append(s, x) : s \in {t \in shorter : Len(t) = n - 1}, x \in S}

-----------------------------------------------------------------------------
(* TrustAccumulator (src/epi/trust_accumulator.py) *)

MaxViolations == 3
MaxList == 2

Severities == {Zero, Half, <<3, 4>>, One}
Timestamps == {100, 200}
Descriptions == {"breach"}
InitialTrusts == {One}
MinThresholds == {<<1, 10>>, <<3, 10>>}
ResetTrusts == {Half, <<1, 20>>}

ViolationRecord == [severity : Severities, timestamp : Timestamps,
                    description : Descriptions]

NoLedgerRet == [trust |-> Zero, history |-> << >>, args |-> << >>]

\* the decay step shared by record_violation and get_trust_history:
\* trust *= (1 - severity); clamp to 0.0 below min_threshold
DecayNoClamp(trust, severity, minT) == RMul(trust, RSub(One, severity))
DecayGrow(trust, severity, minT) ==
    LET t == RMul(trust, RAdd(One, severity))
    IN IF RLt(t, minT) THEN Zero ELSE t
DecayClampsLate(trust, severity, minT) ==
    LET t == RMul(trust, RSub(One, severity))
    IN IF RLt(t, RMul(minT, Half)) THEN Zero ELSE t
Decay(trust, severity, minT) ==
    LET t == RMul(trust, RSub(One, severity))
    IN IF RLt(t, minT) THEN Zero ELSE t

\* __init__(initial_trust = 1.0, min_threshold = 0.1)
LedgerNew(it, mt) ==
    /\ initial_trust = it
    /\ min_threshold = mt
    /\ current_trust = initial_trust
    /\ violations = << >>
    /\ ledgerOp = "init"
    /\ ledgerRet = NoLedgerRet
    /\ prev_trust = initial_trust
    /\ returned = << >>

record_violation(violation) ==
    /\ Len(violations) < MaxViolations
    /\ violations' = Append(violations, violation)
    /\ current_trust' = Decay(current_trust, violation.severity, min_threshold)
    /\ ledgerRet' = [NoLedgerRet EXCEPT !.trust = current_trust']
    /\ ledgerOp' = "record_violation"
    /\ prev_trust' = current_trust
    /\ returned' = Append(returned, current_trust')
    /\ UNCHANGED <<initial_trust, min_threshold>>

RECURSIVE ComputeTrustProduct(_, _, _)
ComputeTrustProduct(trust, sevs, minT) ==
    IF sevs = << >> THEN trust
    ELSE ComputeTrustProduct(RMul(trust, RSub(One, Head(sevs))), Tail(sevs), minT)
RECURSIVE ComputeTrustFrom(_, _, _)
ComputeTrustFrom(trust, sevs, minT) ==
    IF sevs = << >> THEN trust
    ELSE LET t == RMul(trust, RSub(One, Head(sevs)))
         IN IF RLt(t, minT) THEN Zero
            ELSE ComputeTrustFrom(t, Tail(sevs), minT)

compute_trust(sevs) ==
    /\ ledgerRet' = [NoLedgerRet EXCEPT
                        !.trust = ComputeTrustFrom(initial_trust, sevs, min_threshold),
                        !.args = sevs]
    /\ ledgerOp' = "compute_trust"
    /\ prev_trust' = current_trust
    /\ UNCHANGED <<initial_trust, min_threshold, current_trust, violations, returned>>

RECURSIVE TrustHistoryFrom(_, _, _)
TrustHistoryFrom(trust, vs, minT) ==
    IF vs = << >> THEN << >>
    ELSE LET v == Head(vs)
             t == Decay(trust, v.severity, minT)
         IN <<[timestamp |-> v.timestamp, trust |-> t,
               violation |-> v.description, severity |-> v.severity]>>
            \o TrustHistoryFrom(t, Tail(vs), minT)

get_trust_history ==
    /\ ledgerRet' = [NoLedgerRet EXCEPT
                        !.history = TrustHistoryFrom(initial_trust, violations, min_threshold)]
    /\ ledgerOp' = "get_trust_history"
    /\ prev_trust' = current_trust
    /\ UNCHANGED <<initial_trust, min_threshold, current_trust, violations, returned>>

ResetKeepsHistory(new_trust) ==
    /\ current_trust' = IF ~IsNone(new_trust) THEN new_trust[1] ELSE initial_trust
    /\ violations' = violations
    /\ ledgerRet' = [NoLedgerRet EXCEPT !.args = new_trust]
    /\ ledgerOp' = "reset"
    /\ prev_trust' = current_trust
    /\ returned' = returned
    /\ UNCHANGED <<initial_trust, min_threshold>>
reset(new_trust) ==
    /\ current_trust' = IF ~IsNone(new_trust) THEN new_trust[1] ELSE initial_trust
    /\ violations' = << >>
    /\ ledgerRet' = [NoLedgerRet EXCEPT !.args = new_trust]
    /\ ledgerOp' = "reset"
    /\ prev_trust' = current_trust
    /\ returned' = << >>
    /\ UNCHANGED <<initial_trust, min_threshold>>

RecordViolation == \E v \in ViolationRecord : record_violation(v)
\* compute_trust reads only initial_trust and min_threshold; it is called here on
\* the severities recorded so far and on the single complete violation
SeveritiesOf(vs) == [i \in DOMAIN vs |-> vs[i].severity]
ComputeTrust == \E sevs \in {SeveritiesOf(violations), <<One>>} : compute_trust(sevs)
GetTrustHistory == get_trust_history
Reset == \E nt \in {None} \cup {Some(t) : t \in ResetTrusts} : reset(nt)

-----------------------------------------------------------------------------
(* record_violation called from several threads: the method takes no lock, so  *)
(* its reads and writes of the instance interleave with another thread's.     *)

Threads == {"t1", "t2"}
RaceViolations == {v \in ViolationRecord : v.timestamp = 100}
NoFrame == [violation |-> << >>, penalty |-> Zero, loaded |-> Zero, ret |-> << >>]

\* the ledger fields a thread step leaves alone besides the ones it names
RvFrame == <<initial_trust, min_threshold, ledgerOp, ledgerRet, prev_trust, returned>>

\* a thread enters record_violation(violation)
RvCall(t) ==
    /\ pc[t] = "idle"
    /\ \E v \in RaceViolations :
          frame' = [frame EXCEPT ![t] = [NoFrame EXCEPT !.violation = Some(v)]]
    /\ pc' = [pc EXCEPT ![t] = "line51"]
    /\ UNCHANGED <<RvFrame, current_trust, violations>>

\* line 51: self.violations.append(violation)
RvAppend(t) ==
    /\ pc[t] = "line51"
    /\ violations' = Append(violations, frame[t].violation[1])
    /\ pc' = [pc EXCEPT ![t] = "line52"]
    /\ UNCHANGED <<RvFrame, current_trust, frame>>

\* line 52: penalty = 1.0 - violation.severity
RvPenalty(t) ==
    /\ pc[t] = "line52"
    /\ frame' = [frame EXCEPT ![t].penalty = RSub(One, frame[t].violation[1].severity)]
    /\ pc' = [pc EXCEPT ![t] = "line53"]
    /\ UNCHANGED <<RvFrame, current_trust, violations>>

\* line 53, self.current_trust *= penalty: the read of the attribute
RvLoad(t) ==
    /\ pc[t] = "line53"
    /\ frame' = [frame EXCEPT ![t].loaded = current_trust]
    /\ pc' = [pc EXCEPT ![t] = "line53store"]
    /\ UNCHANGED <<RvFrame, current_trust, violations>>

\* line 53: the write of the product
RvStore(t) ==
    /\ pc[t] = "line53store"
    /\ current_trust' = RMul(frame[t].loaded, frame[t].penalty)
    /\ pc' = [pc EXCEPT ![t] = "line56"]
    /\ UNCHANGED <<RvFrame, violations, frame>>

\* line 56: if self.current_trust < self.min_threshold
RvTest(t) ==
    /\ pc[t] = "line56"
    /\ pc' = [pc EXCEPT ![t] = IF RLt(current_trust, min_threshold)
                                THEN "line57" ELSE "line59"]
    /\ UNCHANGED <<RvFrame, current_trust, violations, frame>>

\* line 57: self.current_trust = 0.0
RvClamp(t) ==
    /\ pc[t] = "line57"
    /\ current_trust' = Zero
    /\ pc' = [pc EXCEPT ![t] = "line59"]
    /\ UNCHANGED <<RvFrame, violations, frame>>

\* line 59: return self.current_trust
RvReturn(t) ==
    /\ pc[t] = "line59"
    /\ frame' = [frame EXCEPT ![t].ret = Some(current_trust)]
    /\ pc' = [pc EXCEPT ![t] = "done"]
    /\ UNCHANGED <<RvFrame, current_trust, violations>>

-----------------------------------------------------------------------------
(* EPICalculator (src/epi/calculator.py) *)

\* (sqrt(5) - 1) / 2 and (1 + sqrt(5)) / 2 to three decimals
PHI == <<309, 500>>
GOLDEN_RATIO == <<809, 500>>
\* the numerical floor 1e-6 of trust_accumulator
TrustFloor == <<1, 1000000>>
\* a severity so close to 1 that one such violation underflows the floor
NearOne == <<1999999, 2000000>>

Thresholds == {Half, <<7, 10>>}
PhiWeights == {One, <<2, 1>>}
ScoreGrid == {Zero, <<1, 4>>, Half, <<3, 4>>, One}
CalcSeverities == {Zero, <<1, 4>>, <<3, 4>>, One, NearOne}
Sentiments == {Half, <<9, 10>>}

EPIScores == [profit : ScoreGrid, ethics : ScoreGrid,
              violations : SeqsUpTo(CalcSeverities, MaxList),
              stakeholder_sentiment : Sentiments]

HarmonicMeanArith(p, e) == RDiv(RAdd(p, e), <<2, 1>>)
harmonic_mean(p, e) ==
    IF REq(p, Zero) \/ REq(e, Zero) THEN Zero
    ELSE RDiv(RMul(RMul(<<2, 1>>, p), e), RAdd(p, e))

balance_penalty(w, p, e) ==
    LET imbalance == RAbs(RSub(p, e))
        penalty == RSub(One, RMul(RMul(w, PHI), imbalance))
    IN PyMax(Zero, penalty)

RECURSIVE TrustAccumulatorFloorInclusive(_, _)
TrustAccumulatorFloorInclusive(vs, trust) ==
    IF vs = << >> THEN trust
    ELSE LET t == RMul(trust, RSub(One, Head(vs)))
         IN IF RLe(t, TrustFloor) THEN Zero
            ELSE TrustAccumulatorFloorInclusive(Tail(vs), t)
RECURSIVE trust_accumulator(_, _)
trust_accumulator(vs, trust) ==
    IF vs = << >> THEN trust
    ELSE LET t == RMul(trust, RSub(One, Head(vs)))
         IN IF RLt(t, TrustFloor) THEN Zero
            ELSE trust_accumulator(Tail(vs), t)

golden_ratio_deviation(p, e) ==
    IF REq(e, Zero) THEN Inf
    ELSE LET ratio == RDiv(p, e)
             dev_phi == RAbs(RSub(ratio, GOLDEN_RATIO))
             dev_inv_phi == RAbs(RSub(ratio, RDiv(One, GOLDEN_RATIO)))
         IN PyMin(dev_phi, dev_inv_phi)

ReasonHmean == "rejected: harmonic mean too low (profit or ethics insufficient)"
ReasonImbalance == "rejected: imbalance between profit and ethics"
ReasonTrust == "rejected: trust compromised by violations"
\* f"rejected: EPI {epi:.3f} below threshold {self.threshold}", without the numbers
ReasonBelow == "rejected: EPI below threshold"
ReasonApproved == "approved"

\* lines 181-195: the approval test and the rejection reason
IsValidStrict(epi, th) == RGt(epi, th)
IsValid(epi, th) == RGe(epi, th)

RejectionReasonTrustFirst(hmean, penalty, trust) ==
    IF RLt(trust, Half) THEN ReasonTrust
    ELSE IF RLt(hmean, Half) THEN ReasonHmean
    ELSE IF RLt(penalty, <<7, 10>>) THEN ReasonImbalance
    ELSE ReasonBelow
RejectionReason(hmean, penalty, trust) ==
    IF RLt(hmean, Half) THEN ReasonHmean
    ELSE IF RLt(penalty, <<7, 10>>) THEN ReasonImbalance
    ELSE IF RLt(trust, Half) THEN ReasonTrust
    ELSE ReasonBelow

\* lines 171-176: the index
EpiValueSentimentDivides(hmean, penalty, trust, sentiment, include_sentiment) ==
    LET epi == RMul(RMul(hmean, penalty), trust)
    IN IF include_sentiment THEN RDiv(epi, sentiment) ELSE epi
EpiValue(hmean, penalty, trust, sentiment, include_sentiment) ==
    LET epi == RMul(RMul(hmean, penalty), trust)
    IN IF include_sentiment THEN RMul(epi, sentiment) ELSE epi

\* compute_epi as a function of the calculator's configuration and its arguments
ComputeEpi(th, w, scores, include_sentiment) ==
    LET hmean == harmonic_mean(scores.profit, scores.ethics)
        penalty == balance_penalty(w, scores.profit, scores.ethics)
        trust == trust_accumulator(scores.violations, One)
        epi == EpiValue(hmean, penalty, trust, scores.stakeholder_sentiment,
                        include_sentiment)
        gr_deviation == golden_ratio_deviation(scores.profit, scores.ethics)
        is_valid == IsValid(epi, th)
        reason == IF ~is_valid THEN RejectionReason(hmean, penalty, trust)
                  ELSE ReasonApproved
    IN [epi |-> epi,
        is_valid |-> is_valid,
        trace |-> [hmean |-> hmean,
                   balance_penalty |-> penalty,
                   trust |-> trust,
                   epi |-> epi,
                   golden_ratio_deviation |-> gr_deviation,
                   stakeholder_sentiment |->
                       IF include_sentiment THEN Some(scores.stakeholder_sentiment)
                       ELSE None,
                   threshold |-> th,
                   reason |-> reason]]

NoScores == [profit |-> Zero, ethics |-> Zero, violations |-> << >>,
             stakeholder_sentiment |-> Half]
NoCalcArgs == [scores |-> NoScores, include_sentiment |-> FALSE]

\* __init__(threshold = 0.7, phi_weight = 1.0)
CalcNew(th, w) ==
    /\ threshold = th
    /\ phi_weight = w
    /\ calcOp = "init"
    /\ calcArgs = NoCalcArgs
    /\ calcRet = ComputeEpi(threshold, phi_weight, NoScores, FALSE)

compute_epi(scores, include_sentiment) ==
    /\ calcOp' = "compute_epi"
    /\ calcArgs' = [scores |-> scores, include_sentiment |-> include_sentiment]
    /\ calcRet' = ComputeEpi(threshold, phi_weight, scores, include_sentiment)
    /\ UNCHANGED <<threshold, phi_weight>>

-----------------------------------------------------------------------------
(* harmonic_mean and balance_penalty in floating point.  Each arithmetic      *)
(* operation of the source rounds its exact result to the nearest float, ties *)
(* to even.  A float here has a mantissa of MantissaBits bits and an exponent *)
(* of at least MinExponent (below it the values are subnormal), in place of   *)
(* the 53 bits and the exponent -1074 of a Python float.                      *)

MantissaBits == 4
ExponentDepth == 6
MinExponent == -ExponentDepth

RECURSIVE Pow2(_)
Pow2(k) == IF k = 0 THEN 1 ELSE 2 * Pow2(k - 1)

\* 2^k as a rational, for any integer k
RPow2(k) == IF k >= 0 THEN <<Pow2(k), 1>> ELSE <<1, Pow2(-k)>>

\* the exponent k at which x > 0 is written m * 2^k with a full mantissa m,
\* or MinExponent if that is larger
RECURSIVE ExponentFrom(_, _)
ExponentFrom(x, k) ==
    IF RGe(RDiv(x, RPow2(k)), <<Pow2(MantissaBits), 1>>) THEN ExponentFrom(x, k + 1)
    ELSE IF k > MinExponent /\ RLt(RDiv(x, RPow2(k)), <<Pow2(MantissaBits - 1), 1>>)
         THEN ExponentFrom(x, k - 1)
    ELSE k

\* round to nearest, ties to even
FRound(x) ==
    IF ~IsFinite(x) \/ x = Zero THEN x
    ELSE LET a == RAbs(x)
             k == ExponentFrom(a, 0)
             q == RDiv(a, RPow2(k))
             m == q[1] \div q[2]
             r == RSub(q, <<m, 1>>)
             up == RGt(r, Half) \/ (r = Half /\ m % 2 = 1)
             v == RMul(<<IF up THEN m + 1 ELSE m, 1>>, RPow2(k))
         IN IF x[1] < 0 THEN RNeg(v) ELSE v

FMul(a, b) == FRound(RMul(a, b))
FAdd(a, b) == FRound(RAdd(a, b))
FSub(a, b) == FRound(RSub(a, b))
FDiv(a, b) == FRound(RDiv(a, b))

\* the floats of [0, 1]
Floats01 ==
    {Zero, One} \cup
    {RMul(<<m, 1>>, RPow2(k)) :
        m \in 1..(Pow2(MantissaBits) - 1), k \in MinExponent..(-MantissaBits)}

\* 2 * p * e / (p + e), evaluated left to right
harmonic_mean_rounded(p, e) ==
    IF REq(p, Zero) \/ REq(e, Zero) THEN Zero
    ELSE FDiv(FMul(FMul(<<2, 1>>, p), e), FAdd(p, e))

\* max(0.0, 1 - (self.phi_weight * PHI * imbalance))
BalancePenaltyUnclamped(w, p, e) ==
    FSub(One, FMul(FMul(w, FRound(PHI)), RAbs(FSub(p, e))))
balance_penalty_rounded(w, p, e) ==
    LET imbalance == RAbs(FSub(p, e))
        penalty == FSub(One, FMul(FMul(w, FRound(PHI)), imbalance))
    IN PyMax(Zero, penalty)

harmonic_mean_call(p, e) ==
    /\ calcOp' = "harmonic_mean"
    /\ calcArgs' = [p |-> p, e |-> e]
    /\ calcRet' = [hmean |-> harmonic_mean_rounded(p, e)]
    /\ UNCHANGED <<threshold, phi_weight>>
HarmonicMeanCall ==
    /\ calcOp = "init"
    /\ \E p \in Floats01, e \in Floats01 : harmonic_mean_call(p, e)

balance_penalty_call(p, e) ==
    /\ calcOp' = "balance_penalty"
    /\ calcArgs' = [p |-> p, e |-> e]
    /\ calcRet' = [penalty |-> balance_penalty_rounded(phi_weight, p, e)]
    /\ UNCHANGED <<threshold, phi_weight>>
BalancePenaltyCall ==
    /\ calcOp = "init"
    /\ \E p \in Floats01, e \in Floats01 : balance_penalty_call(p, e)

\* trust_accumulator called on its own, with an initial trust that may differ
\* from the default and may itself lie below the floor
DecaySeverities == {Zero, Half, <<999, 1000>>, One}
DecayInitials == {One, Half, <<1, 2000000>>}
trust_accumulator_call(vs, initial) ==
    /\ calcOp' = "trust_accumulator"
    /\ calcArgs' = [violations |-> vs, initial_trust |-> initial]
    /\ calcRet' = [trust |-> trust_accumulator(vs, initial)]
    /\ UNCHANGED <<threshold, phi_weight>>
TrustAccumulatorCall ==
    /\ calcOp = "init"
    /\ \E vs \in SeqsUpTo(DecaySeverities, MaxList), initial \in DecayInitials :
          trust_accumulator_call(vs, initial)

\* optimize_for_golden_ratio.  np.linspace(0.1, 1.0, n) is the grid
\* 0.1 + i * 0.9 / (n - 1) for i = 0 .. n - 1; the source takes n = 100, the
\* model GridPoints
GridPoints == 4
ProfitGrid ==
    [i \in 1..GridPoints |->
        RAdd(<<1, 10>>, RDiv(<<9 * (i - 1), 1>>, <<10 * (GridPoints - 1), 1>>))]
TargetTolerance == <<1, 20>>

\* lines 228-241: the loop from grid point i on, best being the point kept so far
RECURSIVE OptimizeFrom(_, _, _, _, _, _, _)
OptimizeFrom(th, w, target_epi, current_ethics, vs, i, best) ==
    IF i > GridPoints THEN best
    ELSE LET p == ProfitGrid[i]
             scores == [profit |-> p, ethics |-> current_ethics, violations |-> vs,
                        stakeholder_sentiment |-> Half]
             epi == ComputeEpi(th, w, scores, FALSE).epi
             deviation == golden_ratio_deviation(p, current_ethics)
             better == /\ RLt(RAbs(RSub(epi, target_epi)), TargetTolerance)
                       /\ RLt(deviation, best.deviation)
         IN OptimizeFrom(th, w, target_epi, current_ethics, vs, i + 1,
                IF better THEN [profit |-> p, epi |-> epi, deviation |-> deviation]
                ELSE best)

OptimizeForGoldenRatio(th, w, target_epi, current_ethics, vs) ==
    LET best == OptimizeFrom(th, w, target_epi, current_ethics, vs, 1,
                    [profit |-> Zero, epi |-> Zero, deviation |-> Inf])
    IN [optimal_profit |-> best.profit,
        achieved_epi |-> best.epi,
        golden_ratio_deviation |-> best.deviation,
        profit_ethics_ratio |-> IF RGt(current_ethics, Zero)
                                THEN RDiv(best.profit, current_ethics) ELSE Zero,
        ideal_ratio |-> GOLDEN_RATIO]

TargetEpis == {Zero, Half, <<3, 4>>, <<2, 1>>}
CurrentEthics == {Zero, Half, <<7, 10>>, One}
OptimizeViolations == {<< >>, <<(<<1, 4>>)>>}
optimize_for_golden_ratio(target_epi, current_ethics, vs) ==
    /\ calcOp' = "optimize_for_golden_ratio"
    /\ calcArgs' = [target_epi |-> target_epi, current_ethics |-> current_ethics,
                    violations |-> vs]
    /\ calcRet' = OptimizeForGoldenRatio(threshold, phi_weight, target_epi,
                                         current_ethics, vs)
    /\ UNCHANGED <<threshold, phi_weight>>
OptimizeForGoldenRatioCall ==
    /\ calcOp = "init"
    /\ \E target_epi \in TargetEpis, current_ethics \in CurrentEthics,
          vs \in OptimizeViolations :
          optimize_for_golden_ratio(target_epi, current_ethics, vs)

\* the calculator keeps no state between calls, so one call on each
\* configuration covers every call
ComputeEpiCall ==
    /\ calcOp = "init"
    /\ \E scores \in EPIScores, inc \in BOOLEAN : compute_epi(scores, inc)

-----------------------------------------------------------------------------
(* PolicyValidator (src/policy_engine/validator.py) *)

\* the intent is a dict; a key that is absent is None here, dict.get(key, default)
\* is OptGet and "key in intent" is ~IsNone
OptGet(o, default) == IF IsNone(o) THEN default ELSE o[1]
Optional(S) == {None} \cup {Some(x) : x \in S}

\* EPICalculator() inside the validator: threshold = 0.7, phi_weight = 1.0
DefaultThreshold == <<7, 10>>
DefaultPhiWeight == One

FactorNames == {"env", "equity"}
FactorValues == {Half, One}
FactorDicts == UNION {[D -> FactorValues] : D \in SUBSET FactorNames}
Exposures == {Zero, <<2, 5>>, Half, <<3, 2>>}
RoiProxies == {Zero, <<3, 4>>, One}
PastViolations == SeqsUpTo({<<1, 4>>, One}, MaxList)

Intent == [sanctioned : Optional(BOOLEAN),
           exposure_ratio : Optional(Exposures),
           ethics_factors : Optional(FactorDicts),
           roi_proxy : Optional(RoiProxies),
           past_violations : Optional(PastViolations)]

RECURSIVE SumValues(_)
SumValues(f) ==
    IF DOMAIN f = {} THEN Zero
    ELSE LET k == CHOOSE x \in DOMAIN f : TRUE
         IN RAdd(f[k], SumValues([x \in DOMAIN f \ {k} |-> f[x]]))

\* np.mean of the dict's values; the mean of no values is nan
Mean(f) ==
    IF DOMAIN f = {} THEN NaN
    ELSE RDiv(SumValues(f), <<Cardinality(DOMAIN f), 1>>)

\* line 17: the compliance stub
ComplianceFailsNever(intent) == FALSE
ComplianceFails(intent) == ~IsNone(intent.sanctioned)

\* line 21
RiskScore(intent) == RSub(One, PyMin(OptGet(intent.exposure_ratio, Zero), One))

\* lines 31 and 36
PolicyReason(epi_valid, risk_score) ==
    IF ~epi_valid THEN "EPI rejection"
    ELSE IF RLe(risk_score, Half) THEN "Risk exceed"
    ELSE "Approved"

ValidateIntent(intent) ==
    IF ComplianceFails(intent)
    THEN [approved |-> FALSE, reason |-> "Compliance fail"]
    ELSE LET risk_score == RiskScore(intent)
             ethics == Mean(OptGet(intent.ethics_factors, << >>))
             profit == OptGet(intent.roi_proxy, Zero)
             vs == OptGet(intent.past_violations, << >>)
             scores == [profit |-> profit, ethics |-> ethics, violations |-> vs,
                        stakeholder_sentiment |-> Half]
             r == ComputeEpi(DefaultThreshold, DefaultPhiWeight, scores, FALSE)
             approved == r.is_valid /\ RGt(risk_score, Half)
         IN [approved |-> approved,
             epi_trace |-> r.trace,
             risk_score |-> risk_score,
             reason |-> PolicyReason(r.is_valid, risk_score)]

NoIntent == [sanctioned |-> None, exposure_ratio |-> None, ethics_factors |-> None,
             roi_proxy |-> None, past_violations |-> None]

PolicyNew ==
    /\ polIntent = NoIntent
    /\ polRet = [approved |-> FALSE, reason |-> "init"]

validate_intent(intent) ==
    /\ polIntent' = intent
    /\ polRet' = ValidateIntent(intent)

\* the validator keeps no state between calls, so one call covers every call
ValidateIntentCall ==
    /\ polRet.reason = "init"
    /\ \E intent \in Intent : validate_intent(intent)

-----------------------------------------------------------------------------
(* ThoughtLogger (src/policy_engine/logger.py) *)

MaxTicks == 1
MaxAppends == 2
\* generate_audit_report reads the history with limit=10000
ReportLimit == 10000

\* File names and session ids are strings, modelled as sequences of character
\* codes so that sorted() can order them; a session id is 16 hex characters,
\* shortened here to two.
SessionIds == {<<51, 102>>, <<99, 52>>}     \* "3f", "c4"
Underscore == <<95>>
DotJson == <<46, 106, 115, 111, 110>>       \* ".json"
\* "audit_report.json"
ReportName == <<97, 117, 100, 105, 116, 95, 114, 101, 112, 111, 114, 116>> \o DotJson

RECURSIVE Digits(_)
Digits(n) == IF n < 10 THEN <<48 + n>> ELSE Digits(n \div 10) \o <<48 + (n % 10)>>

\* line 102: f"{self.session_id}_{record.timestamp}.json"
LogFileName(sid, timestamp) ==
    sid \o Underscore \o Digits(timestamp) \o DotJson

RECURSIVE SeqLess(_, _)
SeqLess(a, b) ==
    IF b = << >> THEN FALSE
    ELSE IF a = << >> THEN TRUE
    ELSE IF Head(a) # Head(b) THEN Head(a) < Head(b)
    ELSE SeqLess(Tail(a), Tail(b))

\* sorted(names, reverse=True)
RECURSIVE SortedReverse(_)
SortedReverse(S) ==
    IF S = {} THEN << >>
    ELSE LET m == CHOOSE x \in S : \A y \in S : ~SeqLess(x, y)
         IN <<m>> \o SortedReverse(S \ {m})

ThoughtRecordFields == {"timestamp", "agent_id", "action", "reasoning",
                        "epi_trace", "inputs", "outputs", "metadata"}

\* json.dumps(asdict(record), indent=2, sort_keys=True): the fields in key order
Serialize(r) ==
    << <<"action", r.action>>, <<"agent_id", r.agent_id>>,
       <<"epi_trace", r.epi_trace>>, <<"inputs", r.inputs>>,
       <<"metadata", r.metadata>>, <<"outputs", r.outputs>>,
       <<"reasoning", r.reasoning>>, <<"timestamp", r.timestamp>> >>

\* json.load: the document as a dict
JsonLoad(doc) ==
    [k \in {doc[i][1] : i \in DOMAIN doc} |->
        doc[CHOOSE i \in DOMAIN doc : doc[i][1] = k][2]]

\* ThoughtRecord(**data) raises on a missing or an unexpected key
IsThoughtRecord(data) == DOMAIN data = ThoughtRecordFields

\* hashlib.sha256(...).hexdigest(), taken as collision-free
Sha256(text) == <<"sha256", text>>

\* the traces callers log: any dict, so "epi" and "reason" may be absent
TraceApproved == [epi |-> Some(<<4, 5>>), reason |-> Some(ReasonApproved)]
TraceRejected == [epi |-> Some(<<2, 5>>), reason |-> Some(ReasonHmean)]
TraceEmpty == [epi |-> None, reason |-> None]

LogCalls ==
    {[agent_id |-> "CEO-AI", action |-> "strategic", reasoning |-> "r1",
      epi_trace |-> TraceApproved, inputs |-> << >>, outputs |-> << >>,
      metadata |-> None],
     [agent_id |-> "CFO-AI", action |-> "financial", reasoning |-> "r2",
      epi_trace |-> TraceRejected, inputs |-> << >>, outputs |-> << >>,
      metadata |-> None],
     [agent_id |-> "CEO-AI", action |-> "financial", reasoning |-> "r3",
      epi_trace |-> TraceEmpty, inputs |-> << >>, outputs |-> << >>,
      metadata |-> Some(<< >>)]}

\* lines 84-93
NewThoughtRecord(c, now) ==
    [timestamp |-> now, agent_id |-> c.agent_id, action |-> c.action,
     reasoning |-> c.reasoning, epi_trace |-> c.epi_trace, inputs |-> c.inputs,
     outputs |-> c.outputs, metadata |-> OptGet(c.metadata, << >>)]

\* open(path, "w") and write: creates the file or replaces its content
WriteFile(fs, name, text) ==
    [f \in DOMAIN fs \cup {name} |-> IF f = name THEN text ELSE fs[f]]

\* "if agent_id and ...": a filter that is None or the empty string is not applied
Truthy(o) == ~IsNone(o) /\ o[1] # ""

\* lines 149-170, over the directory content fs
RECURSIVE ReadRecords(_, _, _, _)
ReadRecords(fs, names, agent_id, action) ==
    IF names = << >> THEN << >>
    ELSE LET data == JsonLoad(fs[Head(names)])
             rest == ReadRecords(fs, Tail(names), agent_id, action)
         IN IF ~IsThoughtRecord(data) THEN rest
            ELSE IF Truthy(agent_id) /\ data["agent_id"] # agent_id[1] THEN rest
            ELSE IF Truthy(action) /\ data["action"] # action[1] THEN rest
            ELSE <<data>> \o rest

MinInt(a, b) == IF a < b THEN a ELSE b

ThoughtHistoryNoLimit(fs, agent_id, action, limit) ==
    ReadRecords(fs, SortedReverse(DOMAIN fs), agent_id, action)
ThoughtHistory(fs, agent_id, action, limit) ==
    LET log_files == SortedReverse(DOMAIN fs)
    IN ReadRecords(fs, SubSeq(log_files, 1, MinInt(limit, Len(log_files))),
                   agent_id, action)

\* line 183-184
VerifyAlways(record_json, claimed_hash) == TRUE
VerifyThought(record_json, claimed_hash) == Sha256(record_json) = claimed_hash

RECURSIVE CountWhere(_, _, _)
CountWhere(recs, key, value) ==
    IF recs = << >> THEN 0
    ELSE (IF Head(recs)[key] = value THEN 1 ELSE 0) + CountWhere(Tail(recs), key, value)

\* reason.startswith("approved"): of the reasons that occur, "approved" alone
StartsWithApproved(reason) == reason = ReasonApproved

RECURSIVE EpiStats(_)
EpiStatsCountAll(recs) ==
    [approved |-> Cardinality({i \in DOMAIN recs :
                    StartsWithApproved(OptGet(recs[i]["epi_trace"].reason, ""))}),
     rejected |-> Cardinality({i \in DOMAIN recs :
                    ~StartsWithApproved(OptGet(recs[i]["epi_trace"].reason, ""))}),
     total_epi |-> Zero]
EpiStats(recs) ==
    IF recs = << >> THEN [approved |-> 0, rejected |-> 0, total_epi |-> Zero]
    ELSE LET rest == EpiStats(Tail(recs))
             trace == Head(recs)["epi_trace"]
         IN IF IsNone(trace.epi) THEN rest
            ELSE IF StartsWithApproved(OptGet(trace.reason, ""))
                 THEN [rest EXCEPT !.approved = @ + 1,
                                   !.total_epi = RAdd(@, trace.epi[1])]
                 ELSE [rest EXCEPT !.rejected = @ + 1,
                                   !.total_epi = RAdd(@, trace.epi[1])]

\* lines 196-232
AuditReport(fs, sid, now) ==
    LET all_records == ThoughtHistory(fs, None, None, ReportLimit)
        idx == DOMAIN all_records
        stats == EpiStats(all_records)
    IN [session_id |-> sid,
        total_records |-> Len(all_records),
        agent_counts |-> [a \in {all_records[i]["agent_id"] : i \in idx} |->
                             CountWhere(all_records, "agent_id", a)],
        action_counts |-> [a \in {all_records[i]["action"] : i \in idx} |->
                              CountWhere(all_records, "action", a)],
        epi_statistics |->
            [approved |-> stats.approved,
             rejected |-> stats.rejected,
             avg_epi |-> IF all_records # << >>
                         THEN RDiv(stats.total_epi, <<Len(all_records), 1>>)
                         ELSE Zero],
        generated_at |-> now]

\* json.dump(report): the report file; its values are never read back (the
\* history reader rejects the document on its keys), so they are elided
ReportJson ==
    << <<"action_counts", "...">>, <<"agent_counts", "...">>,
       <<"epi_statistics", "...">>, <<"generated_at", "...">>,
       <<"session_id", "...">>, <<"total_records", "...">> >>

NoReport == AuditReport(<< >>, << >>, 0)
NoLogRet == [hash |-> Sha256(<< >>), records |-> << >>, report |-> NoReport,
             ok |-> FALSE]
NoLogArgs == [agent_id |-> None, action |-> None, limit |-> 0,
              record_json |-> << >>, claimed_hash |-> Sha256(<< >>)]

\* __init__: a session id and an empty log directory; the clock reads 100
LogNew(sid) ==
    /\ session_id = sid
    /\ files = << >>
    /\ clock = 100
    /\ logOp = "init"
    /\ logArgs = NoLogArgs
    /\ logRet = NoLogRet
    /\ issued = {}
    /\ appendCount = 0

\* __init__ on a log directory that earlier sessions have written to: a new
\* session id, the directory as it is
IsPrefix(a, b) == Len(a) <= Len(b) /\ SubSeq(b, 1, Len(a)) = a
NewSession(sid) ==
    /\ sid # session_id
    /\ \A f \in DOMAIN files : ~IsPrefix(sid \o Underscore, f)
    /\ session_id' = sid
    /\ logOp' = "init"
    /\ logArgs' = NoLogArgs
    /\ logRet' = NoLogRet
    /\ UNCHANGED <<files, clock, issued, appendCount>>

\* log_thought with enable_ipfs = False
log_thought(c) ==
    /\ appendCount < MaxAppends
    /\ LET record == NewThoughtRecord(c, clock)
           record_json == Serialize(record)
           record_hash == Sha256(record_json)
           log_file == LogFileName(session_id, record.timestamp)
       IN /\ files' = WriteFile(files, log_file, record_json)
          /\ logRet' = [NoLogRet EXCEPT !.hash = record_hash]
          /\ issued' = issued \cup {[hash |-> record_hash, json |-> record_json,
                                     file |-> log_file]}
    /\ appendCount' = appendCount + 1
    /\ logOp' = "log_thought"
    /\ logArgs' = NoLogArgs
    /\ UNCHANGED <<session_id, clock>>

get_thought_history(agent_id, action, limit) ==
    /\ logOp' = "get_thought_history"
    /\ logArgs' = [NoLogArgs EXCEPT !.agent_id = agent_id, !.action = action,
                                    !.limit = limit]
    /\ logRet' = [NoLogRet EXCEPT
                     !.records = ThoughtHistory(files, agent_id, action, limit)]
    /\ UNCHANGED <<session_id, files, clock, issued, appendCount>>

verify_thought(record_json, claimed_hash) ==
    /\ logOp' = "verify_thought"
    /\ logArgs' = [NoLogArgs EXCEPT !.record_json = record_json,
                                    !.claimed_hash = claimed_hash]
    /\ logRet' = [NoLogRet EXCEPT !.ok = VerifyThought(record_json, claimed_hash)]
    /\ UNCHANGED <<session_id, files, clock, issued, appendCount>>

generate_audit_report ==
    /\ logOp' = "generate_audit_report"
    /\ logArgs' = NoLogArgs
    /\ logRet' = [NoLogRet EXCEPT !.report = AuditReport(files, session_id, clock)]
    /\ files' = WriteFile(files, ReportName, ReportJson)
    /\ UNCHANGED <<session_id, clock, issued, appendCount>>

\* the wall clock int(time.time()) moves on by a second
Tick ==
    /\ clock < 100 + MaxTicks
    /\ clock' = clock + 1
    /\ UNCHANGED <<session_id, files, logOp, logArgs, logRet, issued, appendCount>>

\* the queries made: <<agent_id, action, limit>>
Queries == {<<None, None, 100>>, <<Some(""), None, 100>>,
            <<Some("CEO-AI"), None, 1>>, <<Some("CEO-AI"), Some("financial"), 1>>}

\* a copy of a stored document with one field changed
Tamper(doc) == [doc EXCEPT ![1] = <<doc[1][1], "tampered">>]

LogThought == \E c \in LogCalls : log_thought(c)
GetThoughtHistoryCall ==
    \E q \in Queries : get_thought_history(q[1], q[2], q[3])
\* a hash returned by log_thought is checked against the document now stored
\* where that record was written, or against a tampered copy of it
VerifyThoughtCall ==
    \E i \in issued, tamper \in BOOLEAN :
        verify_thought(IF tamper THEN Tamper(files[i.file]) ELSE files[i.file], i.hash)
GenerateAuditReport == generate_audit_report
Restart == \E sid \in SessionIds : NewSession(sid)

-----------------------------------------------------------------------------
(* CFOAIAgent (src/ai_c_suite/cfo_ai_stub.py) *)

CfoThresholds == {<<7, 10>>, <<1, 5>>}
TreasuryBalances == {<<10, 1>>, One}
PaymentAmounts == {<<3, 5>>, <<20, 1>>}
PaymentCategories == {"community_reward", "operations"}
BudgetAmounts == {<<15, 1>>}
BudgetPriorities ==
    {[c \in {"r_and_d"} |-> One],
     [c \in {"r_and_d", "community_rewards", "treasury_reserve"} |->
         IF c = "r_and_d" THEN <<2, 5>> ELSE <<3, 10>>]}

\* __init__(agent_id = "CFO-AI", epi_threshold, treasury_balance)
CfoNew(th, balance) ==
    /\ epi_threshold = th
    /\ treasury_balance = balance
    /\ initial_balance = balance
    /\ payments_processed = 0
    /\ payments_approved = 0
    /\ total_disbursed = Zero
    /\ allocations_made = 0
    /\ cfoOp = "init"
    /\ cfoRet = [approved |-> FALSE]

\* lines 275-283: ethics_categories.get(category, 0.6)
EthicsScore(category) ==
    CASE category = "vendor_payment" -> <<4, 5>>
      [] category = "employee_salary" -> <<9, 10>>
      [] category = "community_reward" -> <<19, 20>>
      [] category = "r_and_d" -> <<17, 20>>
      [] category = "marketing" -> <<7, 10>>
      [] OTHER -> <<3, 5>>

\* lines 300-303: the verdict of compute_epi, overridden when funds are short
PaymentApprovedByIndexOnly(is_valid, amount, balance) == is_valid
PaymentApproved(is_valid, amount, balance) ==
    IF RGt(amount, balance) THEN FALSE ELSE is_valid

\* lines 266-303: the assessment of a payment against the balance (scores and
\* r are bound as elements of one-element sets, which names each value once)
AssessPayment(th, balance, amount, category) ==
    LET large == RGt(amount, RMul(balance, <<1, 10>>))
        short == RGt(amount, balance)
        risk_factors == (IF large THEN <<"Large payment (>10% of treasury)">>
                         ELSE << >>)
                        \o (IF short THEN <<"Insufficient funds">> ELSE << >>)
        cost_impact == RDiv(amount, PyMax(balance, One))
        profit_score == PyMax(<<1, 10>>, RSub(One, cost_impact))
    IN CHOOSE a \in
        {[epi |-> r.epi,
          approved |-> PaymentApproved(r.is_valid, amount, balance),
          reason |-> IF short THEN "rejected: insufficient treasury funds"
                     ELSE r.trace.reason,
          risk_factors |-> risk_factors] :
            r \in {ComputeEpi(th, DefaultPhiWeight, scores, FALSE) :
                     scores \in {[profit |-> profit_score,
                                  ethics |-> EthicsScore(category),
                                  violations |->
                                      [i \in DOMAIN risk_factors |-> <<1, 5>>],
                                  stakeholder_sentiment |-> Half]}}} : TRUE

\* the record an agent logs: its trace reduced to the keys the logger reads
CfoThought(action, reasoning, epi, reason, inputs, outputs, metadata) ==
    [agent_id |-> "CFO-AI", action |-> action, reasoning |-> reasoning,
     epi_trace |-> [epi |-> Some(epi), reason |-> Some(reason)],
     inputs |-> inputs, outputs |-> outputs, metadata |-> metadata]

process_payment_request(amount, category) ==
    \E a \in {AssessPayment(epi_threshold, treasury_balance, amount, category)},
       request_id \in {<<"PAY", clock, payments_processed + 1>>} :
       /\ payments_processed' = payments_processed + 1
       /\ IF a.approved
          THEN /\ treasury_balance' = RSub(treasury_balance, amount)
               /\ total_disbursed' = RAdd(total_disbursed, amount)
               /\ payments_approved' = payments_approved + 1
          ELSE UNCHANGED <<treasury_balance, total_disbursed, payments_approved>>
       /\ cfoOp' = "process_payment_request"
       /\ cfoRet' = [request_id |-> request_id, amount |-> amount,
                     category |-> category, approved |-> a.approved,
                     epi_score |-> a.epi]
       /\ log_thought(CfoThought("payment_processing",
              IF a.approved THEN "Payment approved and executed."
              ELSE "Payment rejected",
              a.epi, a.reason, <<amount, category>>,
              <<request_id, a.approved, treasury_balance'>>,
              Some(a.risk_factors)))
       /\ UNCHANGED <<epi_threshold, initial_balance, allocations_made>>

\* lines 114-145: the index of an allocation by priorities
AssessAllocation(th, total_amount, priorities) ==
    LET total_priority == SumValues(priorities)
        allocations == [k \in DOMAIN priorities |->
                           RMul(total_amount, RDiv(priorities[k], total_priority))]
        Ratio(k) == RDiv(IF k \in DOMAIN allocations THEN allocations[k] ELSE Zero,
                         total_amount)
        ethics_score == RAdd(RAdd(RMul(Ratio("r_and_d"), <<2, 5>>),
                                  RMul(Ratio("community_rewards"), <<3, 10>>)),
                             RMul(Ratio("treasury_reserve"), <<3, 10>>))
        growth_ratio == RAdd(RAdd(Ratio("r_and_d"), Ratio("marketing")),
                             Ratio("operations"))
    IN CHOOSE a \in
        {[epi |-> r.epi, approved |-> r.is_valid, reason |-> r.trace.reason,
          allocations |-> allocations] :
            r \in {ComputeEpi(th, DefaultPhiWeight, scores, FALSE) :
                     scores \in {[profit |-> PyMin(growth_ratio, One),
                                  ethics |-> ethics_score,
                                  violations |-> << >>,
                                  stakeholder_sentiment |-> Half]}}} : TRUE

\* allocate_budget for a positive total and positive priorities
allocate_budget(total_amount, priorities) ==
    \E a \in {AssessAllocation(epi_threshold, total_amount, priorities)},
       allocation_id \in {<<"ALLOC", clock, allocations_made + 1>>} :
       /\ allocations_made' = allocations_made + 1
       /\ IF a.approved
          THEN /\ treasury_balance' = RSub(treasury_balance, total_amount)
               /\ total_disbursed' = RAdd(total_disbursed, total_amount)
          ELSE UNCHANGED <<treasury_balance, total_disbursed>>
       /\ cfoOp' = "allocate_budget"
       /\ cfoRet' = [allocation_id |-> allocation_id, total_amount |-> total_amount,
                     approved |-> a.approved, epi_score |-> a.epi]
       /\ log_thought(CfoThought("budget_allocation",
              IF a.approved THEN "Allocation approved and executed."
              ELSE "Allocation rejected",
              a.epi, a.reason, <<total_amount, priorities>>,
              <<allocation_id, a.allocations, a.approved, treasury_balance'>>,
              None))
       /\ UNCHANGED <<epi_threshold, initial_balance, payments_processed,
                      payments_approved>>

ProcessPaymentRequestCall ==
    \E amount \in PaymentAmounts, category \in PaymentCategories :
        process_payment_request(amount, category)
AllocateBudgetCall ==
    \E total_amount \in BudgetAmounts, priorities \in BudgetPriorities :
        allocate_budget(total_amount, priorities)

-----------------------------------------------------------------------------
(* Specifications: one per component, the other components at rest *)

ThreadsIdle ==
    /\ pc = [t \in Threads |-> "idle"]
    /\ frame = [t \in Threads |-> NoFrame]
LedgerIdle == LedgerNew(One, <<1, 10>>) /\ ThreadsIdle
CalcIdle == CalcNew(DefaultThreshold, DefaultPhiWeight)
LogIdle == LogNew(<<51, 102>>)
CfoIdle == CfoNew(DefaultThreshold, <<5000000, 1>>)

LedgerInit ==
    /\ \E it \in InitialTrusts, mt \in MinThresholds : LedgerNew(it, mt)
    /\ ThreadsIdle /\ CalcIdle /\ PolicyNew /\ LogIdle /\ CfoIdle
LedgerNext ==
    \/ RecordViolation /\ UNCHANGED <<threadVars, calcVars, polVars, logVars, cfoVars>>
    \/ ComputeTrust /\ UNCHANGED <<threadVars, calcVars, polVars, logVars, cfoVars>>
    \/ GetTrustHistory /\ UNCHANGED <<threadVars, calcVars, polVars, logVars, cfoVars>>
    \/ Reset /\ UNCHANGED <<threadVars, calcVars, polVars, logVars, cfoVars>>
LedgerSpec == LedgerInit /\ [][LedgerNext]_vars

\* two threads call record_violation on one fresh instance
RaceInit ==
    /\ \E mt \in MinThresholds : LedgerNew(One, mt)
    /\ ThreadsIdle /\ CalcIdle /\ PolicyNew /\ LogIdle /\ CfoIdle
RaceNext ==
    \/ \E t \in Threads : RvCall(t) /\ UNCHANGED <<calcVars, polVars, logVars, cfoVars>>
    \/ \E t \in Threads : RvAppend(t) /\ UNCHANGED <<calcVars, polVars, logVars, cfoVars>>
    \/ \E t \in Threads : RvPenalty(t) /\ UNCHANGED <<calcVars, polVars, logVars, cfoVars>>
    \/ \E t \in Threads : RvLoad(t) /\ UNCHANGED <<calcVars, polVars, logVars, cfoVars>>
    \/ \E t \in Threads : RvStore(t) /\ UNCHANGED <<calcVars, polVars, logVars, cfoVars>>
    \/ \E t \in Threads : RvTest(t) /\ UNCHANGED <<calcVars, polVars, logVars, cfoVars>>
    \/ \E t \in Threads : RvClamp(t) /\ UNCHANGED <<calcVars, polVars, logVars, cfoVars>>
    \/ \E t \in Threads : RvReturn(t) /\ UNCHANGED <<calcVars, polVars, logVars, cfoVars>>
RaceSpec == RaceInit /\ [][RaceNext]_vars

CalcInit ==
    /\ \E th \in Thresholds, w \in PhiWeights : CalcNew(th, w)
    /\ LedgerIdle /\ PolicyNew /\ LogIdle /\ CfoIdle
CalcNext ==
    \/ ComputeEpiCall /\ UNCHANGED <<ledgerVars, threadVars, polVars, logVars, cfoVars>>
    \/ TrustAccumulatorCall /\ UNCHANGED <<ledgerVars, threadVars, polVars, logVars, cfoVars>>
    \/ HarmonicMeanCall /\ UNCHANGED <<ledgerVars, threadVars, polVars, logVars, cfoVars>>
    \/ BalancePenaltyCall /\ UNCHANGED <<ledgerVars, threadVars, polVars, logVars, cfoVars>>
    \/ OptimizeForGoldenRatioCall
          /\ UNCHANGED <<ledgerVars, threadVars, polVars, logVars, cfoVars>>
CalcSpec == CalcInit /\ [][CalcNext]_vars

PolicyInit == PolicyNew /\ LedgerIdle /\ CalcIdle /\ LogIdle /\ CfoIdle
PolicyNext ==
    \/ ValidateIntentCall /\ UNCHANGED <<ledgerVars, threadVars, calcVars, logVars, cfoVars>>
PolicySpec == PolicyInit /\ [][PolicyNext]_vars

LogInit ==
    /\ \E sid \in SessionIds : LogNew(sid)
    /\ LedgerIdle /\ CalcIdle /\ PolicyNew /\ CfoIdle
LogNext ==
    \/ LogThought /\ UNCHANGED <<ledgerVars, threadVars, calcVars, polVars, cfoVars>>
    \/ GetThoughtHistoryCall /\ UNCHANGED <<ledgerVars, threadVars, calcVars, polVars, cfoVars>>
    \/ VerifyThoughtCall /\ UNCHANGED <<ledgerVars, threadVars, calcVars, polVars, cfoVars>>
    \/ GenerateAuditReport /\ UNCHANGED <<ledgerVars, threadVars, calcVars, polVars, cfoVars>>
    \/ Tick /\ UNCHANGED <<ledgerVars, threadVars, calcVars, polVars, cfoVars>>
    \/ Restart /\ UNCHANGED <<ledgerVars, threadVars, calcVars, polVars, cfoVars>>
LogSpec == LogInit /\ [][LogNext]_vars

\* the agent and its logger; the wall clock moves between calls
CfoInit ==
    /\ \E th \in CfoThresholds, balance \in TreasuryBalances : CfoNew(th, balance)
    /\ LedgerIdle /\ CalcIdle /\ PolicyNew /\ LogIdle
CfoNext ==
    \/ ProcessPaymentRequestCall /\ UNCHANGED <<ledgerVars, threadVars, calcVars, polVars>>
    \/ AllocateBudgetCall /\ UNCHANGED <<ledgerVars, threadVars, calcVars, polVars>>
    \/ Tick /\ UNCHANGED <<ledgerVars, threadVars, calcVars, polVars, cfoVars>>
CfoSpec == CfoInit /\ [][CfoNext]_vars

-----------------------------------------------------------------------------
(* Claims about the trust ledger, checked under LedgerSpec *)

\* C1: a record_violation step never raises current_trust, and a step that
\* raises current_trust is a reset step.
C1_TrustNonIncreasing ==
    [][/\ ledgerOp' = "record_violation" => RLe(current_trust', current_trust)
       /\ RGt(current_trust', current_trust) => ledgerOp' = "reset"]_vars

\* two violations in a row have each lowered a trust that is still positive
C1_Witness ==
    /\ ledgerOp = "record_violation"
    /\ Len(violations) >= 2
    /\ RLt(current_trust, prev_trust)
    /\ RLt(Zero, current_trust)

\* C2: a record_violation step whose decayed trust is below min_threshold
\* leaves current_trust at exactly 0; from 0 every further record_violation
\* leaves it at 0, and only a reset step makes it positive again.
C2_ClampedUntilReset ==
    [][/\ (/\ ledgerOp' = "record_violation"
           /\ RLt(RMul(current_trust, RSub(One, Last(violations').severity)),
                  min_threshold))
          => current_trust' = Zero
       /\ (ledgerOp' = "record_violation" /\ current_trust = Zero)
          => current_trust' = Zero
       /\ (current_trust = Zero /\ current_trust' # Zero)
          => ledgerOp' = "reset"]_vars

\* trust was clamped to 0 by violations none of which was complete, and a
\* further violation has been recorded since
C2_Witness ==
    /\ ledgerOp = "record_violation"
    /\ Len(violations) >= 2
    /\ \A i \in DOMAIN violations : violations[i].severity # One
    /\ prev_trust = Zero
    /\ current_trust = Zero

\* C25: right after a record_violation call current_trust is exactly 0 or at
\* least min_threshold, never strictly between, and the call has returned the
\* stored current_trust.
C25_ClampedOrAboveThreshold ==
    ledgerOp = "record_violation" =>
        /\ current_trust = Zero \/ RGe(current_trust, min_threshold)
        /\ ledgerRet.trust = current_trust

\* a trust that a reset had put strictly between 0 and min_threshold was
\* clamped to 0 by a violation of severity 0
C25_Witness ==
    /\ ledgerOp = "record_violation"
    /\ RGt(prev_trust, Zero)
    /\ RLt(prev_trust, min_threshold)
    /\ Last(violations).severity = Zero
    /\ current_trust = Zero
    /\ ledgerRet.trust = Zero

\* current_trust after record_violation has been called with each of the
\* severities in order, starting from a ledger whose current_trust is trust
RECURSIVE RecordedFrom(_, _, _)
RecordedFrom(trust, sevs, minT) ==
    IF sevs = << >> THEN trust
    ELSE RecordedFrom(Decay(trust, Head(sevs), minT), Tail(sevs), minT)

\* C26: compute_trust on a list of severities returns the current_trust that
\* recording those severities in order leaves in a freshly created ledger with
\* the same initial_trust and min_threshold.
C26_ComputeTrustAgreesWithLedger ==
    ledgerOp = "compute_trust" =>
        ledgerRet.trust = RecordedFrom(initial_trust, ledgerRet.args, min_threshold)

\* compute_trust returned 0 for a list whose first severities already put the
\* trust below min_threshold, none of them complete, with more to follow
C26_Witness ==
    /\ ledgerOp = "compute_trust"
    /\ Len(ledgerRet.args) = 3
    /\ \A i \in DOMAIN ledgerRet.args : ledgerRet.args[i] # One
    /\ RecordedFrom(initial_trust, SubSeq(ledgerRet.args, 1, 2), min_threshold) = Zero
    /\ ledgerRet.trust = Zero

\* C11: a reset step empties violations, sets current_trust to the trust given,
\* or to initial_trust when none is given, and changes neither initial_trust
\* nor min_threshold.
C11_ResetEffect ==
    [][ledgerOp' = "reset" =>
          /\ violations' = << >>
          /\ current_trust' = (IF ledgerRet'.args = None THEN initial_trust
                               ELSE ledgerRet'.args[1])
          /\ initial_trust' = initial_trust
          /\ min_threshold' = min_threshold]_vars

\* a reset without argument has emptied a history of violations and brought a
\* decayed trust back to initial_trust
C11_Witness ==
    /\ ledgerOp = "reset"
    /\ ledgerRet.args = None
    /\ violations = << >>
    /\ RLt(prev_trust, initial_trust)
    /\ current_trust = initial_trust

\* C12: get_trust_history returns one entry per violation recorded since the
\* last reset, in recording order, each with the trust record_violation
\* returned for it; the call changes neither current_trust nor violations.
C12_HistoryMatchesReturned ==
    ledgerOp = "get_trust_history" =>
        LET h == ledgerRet.history
        IN /\ Len(h) = Len(violations)
           /\ Len(h) = Len(returned)
           /\ \A i \in DOMAIN h :
                 /\ h[i].timestamp = violations[i].timestamp
                 /\ h[i].severity = violations[i].severity
                 /\ h[i].violation = violations[i].description
                 /\ h[i].trust = returned[i]
           /\ h # << >> => Last(h).trust = current_trust

\* get_trust_history is a read
HistoryIsARead ==
    [][ledgerOp' = "get_trust_history" =>
          /\ current_trust' = current_trust
          /\ violations' = violations]_vars

-----------------------------------------------------------------------------
(* Claims about concurrent callers of the trust ledger, checked under RaceSpec *)

BothReturned == \A t \in Threads : pc[t] = "done"

\* C13: once two concurrent record_violation calls have both returned,
\* violations holds both events and current_trust is what the two calls give
\* when run one after the other, in either order, from the initial trust.
C13_NoLostUpdate ==
    BothReturned =>
        LET v1 == frame["t1"].violation[1]
            v2 == frame["t2"].violation[1]
        IN /\ violations \in {<<v1, v2>>, <<v2, v1>>}
           /\ current_trust \in
                 {Decay(Decay(initial_trust, v1.severity, min_threshold),
                        v2.severity, min_threshold),
                  Decay(Decay(initial_trust, v2.severity, min_threshold),
                        v1.severity, min_threshold)}

-----------------------------------------------------------------------------
(* Claims about the audit log, checked under LogSpec *)

RecordFiles == {f \in DOMAIN files : IsThoughtRecord(JsonLoad(files[f]))}

\* C3: every append adds exactly one record under an identifier of its own, so
\* after n appends the store holds n records and a query with a limit of at
\* least n returns n records.
C3_EveryAppendAddsARecord ==
    /\ Cardinality(RecordFiles) = appendCount
    /\ Len(ThoughtHistory(files, None, None, ReportLimit)) = appendCount

\* C4: for every hash that log_thought has returned, the store still holds a
\* document that verifies against it.
C4_RecordsAreKept ==
    \A i \in issued : \E f \in DOMAIN files : VerifyThought(files[f], i.hash)

\* C5: right after log_thought the stored document verifies against the hash
\* returned, no other stored document and no tampered copy does, and
\* verify_thought answers true exactly for the document that was hashed.
C5_VerifyExactlyTheHashed ==
    /\ logOp = "log_thought" =>
          \E i \in issued :
             /\ i.hash = logRet.hash
             /\ VerifyThought(files[i.file], logRet.hash)
             /\ ~VerifyThought(Tamper(files[i.file]), logRet.hash)
             /\ \A f \in DOMAIN files :
                   files[f] # i.json => ~VerifyThought(files[f], logRet.hash)
    /\ logOp = "verify_thought" =>
          (logRet.ok <=> \E i \in issued : /\ i.hash = logArgs.claimed_hash
                                           /\ i.json = logArgs.record_json)

\* a stored record was verified against its hash while the store holds another
\* document too
C5_Witness ==
    /\ logOp = "verify_thought"
    /\ logRet.ok
    /\ Cardinality(DOMAIN files) >= 2

Queried == logOp = "get_thought_history"

Matching ==
    {r \in {JsonLoad(files[f]) : f \in RecordFiles} :
        /\ Truthy(logArgs.agent_id) => r["agent_id"] = logArgs.agent_id[1]
        /\ Truthy(logArgs.action) => r["action"] = logArgs.action[1]}

\* C15: the records get_thought_history returns have non-increasing
\* timestamps, and no stored record that passes the filters and was left out
\* is more recent than a returned one.
C15_MostRecentFirst ==
    Queried =>
        LET rs == logRet.records
        IN /\ \A i, j \in DOMAIN rs : i < j => rs[i]["timestamp"] >= rs[j]["timestamp"]
           /\ \A r \in Matching :
                 (\A i \in DOMAIN rs : rs[i] # r) =>
                     \A i \in DOMAIN rs : r["timestamp"] <= rs[i]["timestamp"]

\* the record files whose record passes the filters of the last query
MatchingFiles ==
    {f \in RecordFiles :
        /\ Truthy(logArgs.agent_id) => JsonLoad(files[f])["agent_id"] = logArgs.agent_id[1]
        /\ Truthy(logArgs.action) => JsonLoad(files[f])["action"] = logArgs.action[1]}

\* C28: a query with a filter returns min(k, limit) records when the store
\* holds k records that pass the filter, however many others it holds.
C28_FilteredQueryComplete ==
    (Queried /\ (Truthy(logArgs.agent_id) \/ Truthy(logArgs.action))) =>
        Len(logRet.records) = MinInt(Cardinality(MatchingFiles), logArgs.limit)

\* what the code returns: the records passing the filter among the first
\* limit files of the directory, so all of them once limit covers the directory
QueryCompleteWithinLimitFiles ==
    (Queried /\ logArgs.limit >= Cardinality(DOMAIN files)) =>
        Len(logRet.records) = Cardinality(MatchingFiles)

\* the same for a directory that a single session has written to
SingleSession ==
    \A f \in RecordFiles : IsPrefix(session_id \o Underscore, f)
MostRecentFirstInOneSession == SingleSession => C15_MostRecentFirst

Reported == logOp = "generate_audit_report"

\* a step of generate_audit_report (the clock does not move during a call)
ReportStep == logOp' = "generate_audit_report" /\ clock' = clock

\* C29: generate_audit_report leaves the record store as it is: every query
\* returns after it what it returned before it, and a second report with no
\* append in between gives the same total_records.
C29_ReportIsReadOnly ==
    [][ReportStep =>
          /\ \A q \in Queries :
                ThoughtHistory(files', q[1], q[2], q[3])
                    = ThoughtHistory(files, q[1], q[2], q[3])
          /\ logOp = "generate_audit_report" =>
                logRet'.report.total_records = logRet.report.total_records]_vars

\* what the report step does to the directory: it keeps every record file with
\* its content and writes the one file audit_report.json, and a second report
\* in a row counts the same records
ReportKeepsRecordFiles ==
    [][ReportStep =>
          /\ DOMAIN files' = DOMAIN files \cup {ReportName}
          /\ \A f \in DOMAIN files \ {ReportName} : files'[f] = files[f]
          /\ logOp = "generate_audit_report" =>
                logRet'.report.total_records = logRet.report.total_records]_vars

RECURSIVE SumCounts(_)
SumCounts(f) ==
    IF DOMAIN f = {} THEN 0
    ELSE LET k == CHOOSE x \in DOMAIN f : TRUE
         IN f[k] + SumCounts([x \in DOMAIN f \ {k} |-> f[x]])

RECURSIVE IndexSum(_)
IndexSum(fs) ==
    IF fs = {} THEN Zero
    ELSE LET f == CHOOSE g \in fs : TRUE
         IN RAdd(JsonLoad(files[f])["epi_trace"].epi[1], IndexSum(fs \ {f}))

\* the record files whose trace has an epi: the records counted as approved
\* or rejected
CountedFiles == {f \in RecordFiles : ~IsNone(JsonLoad(files[f])["epi_trace"].epi)}

\* C30: avg_epi is the mean of the epi values of the records counted as
\* approved or rejected: avg_epi times (approved + rejected) is the sum of
\* their epi values, and avg_epi is 0 for an empty store.
C30_MeanOverCountedRecords ==
    Reported =>
        LET st == logRet.report.epi_statistics
        IN /\ RMul(st.avg_epi, <<st.approved + st.rejected, 1>>)
                 = IndexSum(CountedFiles)
           /\ RecordFiles = {} => st.avg_epi = Zero

\* what the code computes: the sum of the counted records' epi values divided
\* by the number of all records
MeanOverAllRecords ==
    Reported =>
        LET st == logRet.report.epi_statistics
        IN /\ RMul(st.avg_epi, <<logRet.report.total_records, 1>>)
                 = IndexSum(CountedFiles)
           /\ RecordFiles = {} => st.avg_epi = Zero

-----------------------------------------------------------------------------
(* Claims about the policy pipeline, checked under PolicySpec *)

Validated == polRet.reason # "init"
FullDecision == DOMAIN polRet = {"approved", "epi_trace", "risk_score", "reason"}

\* C6: an intent whose sanctioned flag is set is rejected with the compliance
\* reason whatever its other fields are, and no score is computed for it.
C6_SanctionedShortCircuits ==
    polIntent.sanctioned = Some(TRUE) =>
        /\ polRet.approved = FALSE
        /\ polRet.reason = "Compliance fail"
        /\ DOMAIN polRet = {"approved", "reason"}

\* a sanctioned intent that every other gate would let through
C6_Witness ==
    /\ polIntent.sanctioned = Some(TRUE)
    /\ polIntent.roi_proxy = Some(One)
    /\ polIntent.ethics_factors = Some([n \in FactorNames |-> One])
    /\ polIntent.exposure_ratio = Some(Zero)
    /\ polIntent.past_violations = Some(<< >>)
    /\ polRet.reason = "Compliance fail"

\* the decision the risk and score gates prescribe for the validated intent
GatesDecision ==
    /\ FullDecision
    /\ LET x == OptGet(polIntent.exposure_ratio, Zero)
           risk == IF RLt(One, x) THEN Zero ELSE RSub(One, x)
           valid == RGe(polRet.epi_trace.epi, polRet.epi_trace.threshold)
       IN /\ polRet.risk_score = risk
          /\ polRet.approved = (valid /\ RGt(risk, Half))
          /\ polRet.reason = (IF ~valid THEN "EPI rejection"
                              ELSE IF RLe(risk, Half) THEN "Risk exceed"
                              ELSE "Approved")
          /\ polRet.approved <=> polRet.reason = "Approved"

\* C7: every intent that is not sanctioned gets approved = (index valid and
\* risk score > 0.5) with risk score 1 - min(exposure, 1), and the reason by
\* the precedence EPI rejection, Risk exceed, Approved.
C7_NonSanctionedDecision ==
    (Validated /\ polIntent.sanctioned # Some(TRUE)) => GatesDecision

\* the same decision for the intents that carry no sanctioned key at all:
\* these are the intents the compliance stub lets through to the gates
GatePassedDecision ==
    (Validated /\ IsNone(polIntent.sanctioned)) => GatesDecision

\* C27: the compliance reason is returned only for intents whose sanctioned
\* flag is true, and an intent that carries sanctioned = false gets the decision
\* of the same intent without the sanctioned field.
C27_ComplianceFailOnlyWhenSanctioned ==
    Validated =>
        /\ polRet.reason = "Compliance fail" => polIntent.sanctioned = Some(TRUE)
        /\ polIntent.sanctioned = Some(FALSE) =>
               polRet = ValidateIntent([polIntent EXCEPT !.sanctioned = None])

\* what the compliance stub does: it fails every intent that has the key,
\* whatever the value under it
ComplianceFailWheneverKeyPresent ==
    Validated => (polRet.reason = "Compliance fail" <=> ~IsNone(polIntent.sanctioned))

\* C20: an intent with no sanctioned key and no ethics factors gets a full
\* decision with index 0, approved = false and the reason EPI rejection,
\* whatever its profit, exposure and past violations are.
C20_NoEthicsFactorsRejected ==
    (/\ Validated
     /\ IsNone(polIntent.sanctioned)
     /\ OptGet(polIntent.ethics_factors, << >>) = << >>)
    => /\ FullDecision
       /\ polRet.epi_trace.epi = Zero
       /\ polRet.approved = FALSE
       /\ polRet.reason = "EPI rejection"

\* what the code does return for such an intent: the rejection, with a NaN
\* index unless the profit is 0
NoEthicsFactorsDecision ==
    (/\ Validated
     /\ IsNone(polIntent.sanctioned)
     /\ OptGet(polIntent.ethics_factors, << >>) = << >>)
    => /\ FullDecision
       /\ polRet.epi_trace.epi =
             (IF OptGet(polIntent.roi_proxy, Zero) = Zero THEN Zero ELSE NaN)
       /\ polRet.approved = FALSE
       /\ polRet.reason = "EPI rejection"

-----------------------------------------------------------------------------
(* Claims about the score engine, checked under CalcSpec *)

Called == calcOp = "compute_epi"

C9_VerdictPrecedence ==
    Called =>
        LET t == calcRet.trace
        IN /\ (t.reason = ReasonApproved) <=> calcRet.is_valid
           /\ ~calcRet.is_valid =>
                 t.reason = (IF RLt(t.hmean, Half) THEN ReasonHmean
                             ELSE IF RLt(t.balance_penalty, <<7, 10>>)
                                  THEN ReasonImbalance
                             ELSE IF RLt(t.trust, Half) THEN ReasonTrust
                             ELSE ReasonBelow)

\* a rejection in which both the harmonic mean and the trust are low, reported
\* as the harmonic mean's
C9_Witness ==
    /\ Called
    /\ ~calcRet.is_valid
    /\ RLt(calcRet.trace.hmean, Half)
    /\ RLt(calcRet.trace.trust, Half)
    /\ RLt(Zero, calcRet.trace.hmean)
    /\ calcRet.trace.reason = ReasonHmean

\* C10: with profit = 0 or ethics = 0 the index is 0 and, the threshold being
\* positive, valid is false, whatever the other inputs are.
C10_NonCompensation ==
    (Called /\ (calcArgs.scores.profit = Zero \/ calcArgs.scores.ethics = Zero)) =>
        /\ calcRet.epi = Zero
        /\ RGt(threshold, Zero) => ~calcRet.is_valid

\* zero ethics with full profit, no violations and the sentiment applied
C10_Witness ==
    /\ Called
    /\ calcArgs.scores.profit = One
    /\ calcArgs.scores.ethics = Zero
    /\ calcArgs.scores.violations = << >>
    /\ calcArgs.include_sentiment
    /\ calcRet.epi = Zero
    /\ ~calcRet.is_valid

-----------------------------------------------------------------------------
(* Claims about the score engine's components, checked under CalcSpec *)

Decayed == calcOp = "trust_accumulator"

\* initial x (1 - vs[1]) x ... x (1 - vs[k])
RECURSIVE RunningProduct(_, _, _)
RunningProduct(initial, vs, k) ==
    IF k = 0 THEN initial
    ELSE RMul(RunningProduct(initial, vs, k - 1), RSub(One, vs[k]))

C18_HarmonicMeanBounds ==
    calcOp = "harmonic_mean" =>
        LET p == calcArgs.p
            e == calcArgs.e
            h == calcRet.hmean
        IN /\ h = Zero <=> (p = Zero \/ e = Zero)
           /\ (p # Zero /\ e # Zero) =>
                 /\ RLe(h, RMul(<<2, 1>>, PyMin(p, e)))
                 /\ RLe(h, PyMax(p, e))

Penalised == calcOp = "balance_penalty"

\* the exact imbalance |p - e| of the call made
Imbalance == RAbs(RSub(calcArgs.p, calcArgs.e))

\* the penalty at each imbalance q, as balance_penalty(q, 0) gives it
PenaltyAt ==
    [w \in PhiWeights |->
        [q \in Floats01 |-> balance_penalty_rounded(w, q, Zero)]]

\* C19 as stated: for floats p, e of [0, 1] and the configured weight,
\* balance_penalty(p, e) is 1.0 exactly when p = e, is strictly smaller for a
\* strictly larger |p - e|, and is never negative.
C19_PenaltyStrictlyDecreasing ==
    Penalised =>
        /\ calcRet.penalty = One <=> calcArgs.p = calcArgs.e
        /\ \A q \in Floats01 :
              /\ RLt(Imbalance, q) =>
                    RLt(PenaltyAt[phi_weight][q], calcRet.penalty)
              /\ RLt(q, Imbalance) =>
                    RLt(calcRet.penalty, PenaltyAt[phi_weight][q])
        /\ RGe(calcRet.penalty, Zero)

\* C19, amended: balance_penalty(p, e) lies in [0, 1], is 1.0 when p = e, and
\* is never larger for a larger |p - e|.
C19_PenaltyNonIncreasing ==
    Penalised =>
        /\ RGe(calcRet.penalty, Zero) /\ RLe(calcRet.penalty, One)
        /\ calcArgs.p = calcArgs.e => calcRet.penalty = One
        /\ \A q \in Floats01 :
              /\ RLe(Imbalance, q) =>
                    RLe(PenaltyAt[phi_weight][q], calcRet.penalty)
              /\ RLe(q, Imbalance) =>
                    RLe(calcRet.penalty, PenaltyAt[phi_weight][q])

\* with the weight 2 the penalty is 0 although the imbalance is not the
\* largest possible
C19_Witness ==
    /\ Penalised
    /\ phi_weight = <<2, 1>>
    /\ RLt(Imbalance, One)
    /\ calcRet.penalty = Zero

-----------------------------------------------------------------------------
(* Claims about the CFO agent, checked under CfoSpec *)

\* C23: a payment request for more than the treasury balance is rejected,
\* leaves treasury_balance, total_disbursed and payments_approved as they were
\* and raises payments_processed by one.  (A step of process_payment_request
\* is one that ends in that call and has logged a thought.)
C23_InsufficientFundsRejected ==
    [][(/\ cfoOp' = "process_payment_request"
        /\ appendCount' # appendCount
        /\ RGt(cfoRet'.amount, treasury_balance))
        => /\ ~cfoRet'.approved
           /\ treasury_balance' = treasury_balance
           /\ total_disbursed' = total_disbursed
           /\ payments_approved' = payments_approved
           /\ payments_processed' = payments_processed + 1]_vars

\* a payment above the balance was rejected after another had been paid out,
\* its index alone being enough for approval
C23_Witness ==
    /\ cfoOp = "process_payment_request"
    /\ RGt(cfoRet.amount, treasury_balance)
    /\ ~cfoRet.approved
    /\ RGe(cfoRet.epi_score, epi_threshold)
    /\ payments_processed = 2
    /\ payments_approved = 1

-----------------------------------------------------------------------------
(* Claims about the stakeholder sentiment *)

\* the index compute_epi returns without sentiment on the scores of the last call
EpiWithout == ComputeEpi(threshold, phi_weight, calcArgs.scores, FALSE).epi

\* a > b for finite a and b, the common factor of the denominators cancelled
\* before the cross multiplication
Higher(a, b) ==
    LET g == GCD(a[2], b[2])
    IN a[1] * (b[2] \div g) > b[1] * (a[2] \div g)

\* C22: for scores with a positive base index, compute_epi with
\* include_sentiment set returns a higher index than compute_epi without it on
\* the same scores.
C22_SentimentRaisesIndex ==
    (Called /\ calcArgs.include_sentiment /\ RGt(EpiWithout, Zero)) =>
        Higher(calcRet.epi, EpiWithout)

\* what the code returns: the base index times the sentiment, which for a
\* sentiment in [0,1] is never above the base index
SentimentNeverRaisesIndex ==
    (Called /\ calcArgs.include_sentiment) =>
        /\ calcRet.epi = RMul(EpiWithout, calcArgs.scores.stakeholder_sentiment)
        /\ ~Higher(calcRet.epi, EpiWithout)

-----------------------------------------------------------------------------
(* Claims about the range of the index *)

InUnitInterval(x) == RGe(x, Zero) /\ RLe(x, One)

\* C24: for profit, ethics, every violation severity and the sentiment in
\* [0,1] and the default weight, the harmonic mean, the balance penalty and the
\* trust each lie in [0,1], and so does the index compute_epi returns, with or
\* without sentiment.  (The harmonic mean and the balance penalty lie in [0,1]
\* in rounded arithmetic as well.)
C24_IndexInUnitInterval ==
    /\ (Called /\ phi_weight = DefaultPhiWeight) =>
           /\ InUnitInterval(calcRet.trace.hmean)
           /\ InUnitInterval(calcRet.trace.balance_penalty)
           /\ InUnitInterval(calcRet.trace.trust)
           /\ InUnitInterval(calcRet.epi)
    /\ calcOp = "harmonic_mean" => InUnitInterval(calcRet.hmean)
    /\ (calcOp = "balance_penalty" /\ phi_weight = DefaultPhiWeight) =>
           InUnitInterval(calcRet.penalty)

\* an index strictly between 0 and 1 was returned with sentiment applied to
\* scores that carry a violation, under the default weight
C24_Witness ==
    /\ Called
    /\ phi_weight = DefaultPhiWeight
    /\ calcArgs.include_sentiment
    /\ calcArgs.scores.violations # << >>
    /\ RGt(calcRet.epi, Zero)
    /\ RLt(calcRet.epi, One)

-----------------------------------------------------------------------------
(* Claims about the profit search *)

Optimized == calcOp = "optimize_for_golden_ratio"

\* the index of grid point i for the arguments of the last call
GridIndex(i) ==
    ComputeEpi(threshold, phi_weight,
               [profit |-> ProfitGrid[i], ethics |-> calcArgs.current_ethics,
                violations |-> calcArgs.violations, stakeholder_sentiment |-> Half],
               FALSE).epi
\* the grid points whose index is within 0.05 of the target
Qualifying ==
    {i \in 1..GridPoints :
        RLt(RAbs(RSub(GridIndex(i), calcArgs.target_epi)), TargetTolerance)}
GridDeviation(i) == golden_ratio_deviation(ProfitGrid[i], calcArgs.current_ethics)

\* C21: when some grid point has an index within 0.05 of the target, the
\* optimal profit returned is such a grid point, the achieved index is its index
\* and its golden ratio deviation is the least among such points; when none
\* has, the result is optimal profit 0 and achieved index 0.
C21_OptimizeReturnsBestQualifying ==
    Optimized =>
        IF Qualifying # {}
        THEN \E i \in Qualifying :
                /\ calcRet.optimal_profit = ProfitGrid[i]
                /\ calcRet.achieved_epi = GridIndex(i)
                /\ calcRet.golden_ratio_deviation = GridDeviation(i)
                /\ \A j \in Qualifying : ~RLt(GridDeviation(j), GridDeviation(i))
        ELSE calcRet.optimal_profit = Zero /\ calcRet.achieved_epi = Zero

\* what the search returns: the claim's result whenever the ethics score is
\* not 0, and the zero result for an ethics score of 0, where every deviation
\* is infinite and none is below the initial best deviation
OptimizeWhenEthicsPositive ==
    Optimized =>
        IF REq(calcArgs.current_ethics, Zero)
        THEN calcRet.optimal_profit = Zero /\ calcRet.achieved_epi = Zero
        ELSE C21_OptimizeReturnsBestQualifying
====
